---------------------------- MODULE Spec2Model ----------------------------
(***************************************************************************)
(* Session-to-database routing of lets-todo-api: the pool-assignment       *)
(* middleware pipeline, the auth router (register / login), the session    *)
(* router (guest start / guest end) and the todo handlers, over the        *)
(* process-wide pool maps of db.js and the MySQL server (registry table    *)
(* `users`, one database per tenant).                                      *)
(*                                                                         *)
(* Every action is one synchronous segment of a handler: from the arrival  *)
(* of the request or the completion of an awaited database call up to the  *)
(* next await.  The database executes each statement atomically.           *)
(***************************************************************************)
EXTENDS Integers, Sequences, FiniteSets, TLC

(***************************************************************************)
(* Bounds of the model.                                                    *)
(***************************************************************************)
\* frames the JS engine allows before it throws RangeError (stack overflow)
MaxStack == 3
\* process restarts (pm2 restarts the process; the pool maps start empty)
MaxRestarts == 1
\* rows inserted into one tenant's todos table
MaxTodos == 2
\* ticks of the clock behind Date.now()
MaxClock == 2

\* concurrently handled requests
Slots == {1, 2}
\* the slot of the specifications that handle one request at a time
FirstSlot == {1}

(***************************************************************************)
(* Strings are sequences of one-character strings, so that the string      *)
(* operations of the code (hex encoding, slice, replace, template          *)
(* literals) are computed and not assumed.                                 *)
(***************************************************************************)
EmailA == <<"a","l","i","c","e",".","m","i","l","l","e","r","@","x",".","i","o">>
EmailB == <<"a","l","i","c","e",".","m","i","l","l","e","r","@","y",".","i","o">>
EmailC == <<"b","o","b","@","x",".","i","o">>
Emails == {EmailA, EmailB, EmailC}

Passwords == {"pw1", "pw2"}

\* ASCII codes of the characters that occur in the e-mail addresses
Ord(c) ==
  CASE c = "." -> 46
    [] c = "@" -> 64
    [] c = "a" -> 97
    [] c = "b" -> 98
    [] c = "c" -> 99
    [] c = "e" -> 101
    [] c = "i" -> 105
    [] c = "l" -> 108
    [] c = "m" -> 109
    [] c = "o" -> 111
    [] c = "r" -> 114
    [] c = "x" -> 120
    [] c = "y" -> 121

HexDigits == <<"0","1","2","3","4","5","6","7","8","9","a","b","c","d","e","f">>

\* Buffer.from(email).toString("hex")
RECURSIVE ToHex(_)
ToHex(s) ==
  IF s = <<>> THEN <<>>
  ELSE <<HexDigits[(Ord(Head(s)) \div 16) + 1], HexDigits[(Ord(Head(s)) % 16) + 1]>>
       \o ToHex(Tail(s))

\* String.prototype.slice(0, n)
Slice(s, n) == SubSeq(s, 1, IF Len(s) < n THEN Len(s) ELSE n)

\* the length the hex encoding is cut to
HexSliceLen == 24

\* `notes_user_${Buffer.from(email).toString("hex").slice(0, 24)}`
UserDbName(email) ==
  [prefix |-> "notes_user_", suffix |-> Slice(ToHex(email), HexSliceLen)]

\* guestId.replace(/-/g, "")
RECURSIVE StripDashes(_)
StripDashes(s) ==
  IF s = <<>> THEN <<>>
  ELSE IF Head(s) = "-" THEN StripDashes(Tail(s))
       ELSE <<Head(s)>> \o StripDashes(Tail(s))

\* `todos_guest_${guestId.replace(/-/g, "")}`
GuestDbName(guestId) ==
  [prefix |-> "todos_guest_", suffix |-> StripDashes(guestId)]

\* registry ids: AUTO_INCREMENT starts at 1, one id per e-mail at most
UserIds == 1 .. Cardinality(Emails)
NoUser == 0

DecimalDigits == <<"1","2","3","4","5","6","7","8","9">>

\* `user_${userId}`
UserKey(userId) == <<"u","s","e","r","_", DecimalDigits[userId]>>

\* values uuidv4() returns (abstracted to two characters around one dash)
Uuids == {<<"a","-","b">>, <<"c","-","d">>}
\* a guestId cookie value no uuidv4() returned, which a client can send as well
ForgedTokens == {UserKey(1)}
Tokens == Uuids \cup ForgedTokens
NoToken == <<>>

\* the keys of the pool maps
PoolKeys == Tokens \cup {UserKey(i) : i \in UserIds}

StoreNames == {UserDbName(e) : e \in Emails} \cup {GuestDbName(t) : t \in Tokens}
NoStore == [prefix |-> "", suffix |-> <<>>]

\* mysql.createPool({ database: dbName, ... }); an absent map entry is NoPool
NewPool(dbName) == [db |-> dbName]
NoPool == [db |-> NoStore]

\* bcrypt.hash(password, 10) and bcrypt.compare(password, hash): opaque
Hash(password) == <<"bcrypt", password>>
Compare(password, hash) == hash = Hash(password)

(***************************************************************************)
(* State.                                                                  *)
(*   registry    the rows of table `users`; AUTO_INCREMENT id = position   *)
(*   stores      the MySQL server's databases, by name                     *)
(*   guestPools  db.js guestPools                                          *)
(*   userPools   db.js userPools                                           *)
(*   req         the requests in flight, one per slot, with the response   *)
(*               each has produced so far                                  *)
(*   minted      the values uuidv4() has returned                          *)
(*   cookies     the guestId cookies the clients have received             *)
(*   jar         the cookies of the browser, in the scenarios in which the *)
(*               client is a browser that sends what it holds              *)
(*   restarts    process restarts so far                                   *)
(*   now         the value of Date.now(), in ticks                         *)
(*   clients     what the clients of a scenario send, and whether database *)
(*               calls may fail in it; never changes                       *)
(*   attachLog   history: the store of every handle a todo handler was     *)
(*               given for a user request, with the process epoch          *)
(*   ended       history: the guestIds whose guest/end has answered 200    *)
(*   core        the process and its core connection check: check is       *)
(*               "pending" until corePool.getConnection() settles, then    *)
(*               "connected", or "exited" after process.exit(1); early is  *)
(*               history: the process sent a response while the check was  *)
(*               pending                                                   *)
(***************************************************************************)
VARIABLES registry, stores, guestPools, userPools, req, minted, cookies,
          restarts, now, clients, attachLog, ended, jar, core

vars == <<registry, stores, guestPools, userPools, req, minted, cookies,
          restarts, now, clients, attachLog, ended, jar, core>>

\* JSON values of a request body, by their text; Undefined is an absent field
Undefined == "undefined"
Null == "null"

\* the body { title: "t1" }
TitleOnly == [title |-> "t1", description |-> Undefined, completed |-> Undefined]

\* a request without a body
NoBody == [title |-> Undefined, description |-> Undefined, completed |-> Undefined]

\* table todos of a new database: no rows, AUTO_INCREMENT at 1
NoDatabase == [exists |-> FALSE, schema |-> FALSE, todos |-> <<>>, nextId |-> 1]

\* a browser without cookies
NoCookies == [userId |-> NoUser, guestId |-> NoToken]

\* the Domain attribute of the cookie options written out in the code, and
\* the values of ENV.COOKIE_DOMAIN: none in development, the same parent domain
\* in staging and production
ParentDomain == ".dev2k.org"
CookieDomains == {Undefined, ParentDomain}

\* a request before it arrives
Fresh ==
  [kind |-> "none", pc |-> "idle", userId |-> NoUser, guestId |-> NoToken,
   op |-> "", email |-> <<>>, password |-> "", pool |-> NoPool,
   gid |-> NoToken, uid |-> NoUser, status |-> 0, error |-> "",
   setUser |-> NoUser, setGuest |-> NoToken, clearUser |-> 0, clearGuest |-> 0,
   conflicts |-> 0, handler |-> FALSE, rows |-> <<>>, why |-> "",
   afterEnd |-> FALSE, closing |-> FALSE,
   id |-> 0, body |-> NoBody, ts |-> 0]

\* the core connection check of a process: not settled, and settled
CheckPending == [check |-> "pending", early |-> FALSE]

CheckPassed == [check |-> "connected", early |-> FALSE]

\* the state of a process started on an empty MySQL server, with the core
\* connection check in the given state
Boot(scenario, check) ==
  /\ core = check
  /\ clients = scenario
  /\ ended = {}
  /\ registry = <<>>
  /\ stores = [n \in StoreNames |-> NoDatabase]
  /\ guestPools = [k \in PoolKeys |-> NoPool]
  /\ userPools = [k \in PoolKeys |-> NoPool]
  /\ req = [s \in Slots |-> Fresh]
  /\ minted = {}
  /\ cookies = {}
  /\ restarts = 0
  /\ now = 0
  /\ jar = NoCookies
  /\ attachLog = {}

\* the state of a process started on an empty MySQL server, after its core
\* connection check has passed
Start(scenario) == Boot(scenario, CheckPassed)

\* A response is delivered as soon as it is complete: while a slot holds a
\* complete response, the only step is Deliver of that slot.
Quiet == \A t \in Slots : req[t].pc # "done"

\* the process is alive: app.listen has bound the port and no process.exit
\* has run
Listening == core.check # "exited"

\* a slot of the listening process is free for the next request
Idle(s) == Listening /\ Quiet /\ req[s].pc = "idle"

\* the request of slot s waits for the database call it sent at `pc`
Awaits(s, pc) == Quiet /\ req[s].pc = pc

\* whether the database call that returns succeeded
Outcomes == IF clients.faults THEN BOOLEAN ELSE {TRUE}

\* userId and guestId cookie values a client can send: what it was given,
\* or made up; a browser sends the cookies it holds
SendableUsers == IF clients.browser THEN {jar.userId} ELSE clients.userIds \cup {NoUser}
SendableTokens ==
  IF clients.browser THEN {jar.guestId} ELSE (cookies \cup clients.forged) \cup {NoToken}

\* res.status(code).json({ error | message })
Respond(r, code, text) == [r EXCEPT !.pc = "done", !.status = code, !.error = text]

(***************************************************************************)
(* The MySQL server.                                                       *)
(***************************************************************************)
\* SELECT ... FROM users WHERE id = ?
SelectById(id) ==
  IF id \in 1 .. Len(registry) THEN <<registry[id]>> ELSE <<>>

\* SELECT * FROM users WHERE email = ?
SelectByEmail(email) ==
  SelectSeq(registry, LAMBDA row : row.email = email)

\* INSERT INTO users (email, password_hash, db_name, created) VALUES (?, ?, ?, ?)
\* under email VARCHAR(255) UNIQUE NOT NULL: the rows after a successful insert
InsertUser(email, password_hash, dbName) ==
  Append(registry, [id |-> Len(registry) + 1, email |-> email,
                    password_hash |-> password_hash, db_name |-> dbName])

\* a plausible slip: table users without the UNIQUE key on email
DupEntryUnchecked(email) == FALSE

\* whether the INSERT fails with ER_DUP_ENTRY
DupEntry(email) == SelectByEmail(email) # <<>>

\* a plausible slip: CREATE OR REPLACE DATABASE `dbName`
CreateDatabaseAnew(dbs, dbName) ==
  [dbs EXCEPT ![dbName] = [NoDatabase EXCEPT !.exists = TRUE]]

\* CREATE DATABASE IF NOT EXISTS `dbName`
CreateDatabase(dbs, dbName) ==
  IF dbs[dbName].exists THEN dbs
  ELSE [dbs EXCEPT ![dbName] = [NoDatabase EXCEPT !.exists = TRUE]]

\* CREATE TABLE IF NOT EXISTS todos (...), run through a pool of dbName
CreateTable(dbs, dbName) == [dbs EXCEPT ![dbName].schema = TRUE]

\* DROP DATABASE IF EXISTS `dbName`
DropDatabase(dbs, dbName) == [dbs EXCEPT ![dbName] = NoDatabase]

\* a statement on table todos through a pool of dbName can run
TableReady(dbName) ==
  dbName \in StoreNames /\ stores[dbName].exists /\ stores[dbName].schema

(***************************************************************************)
(* Table todos (id INT AUTO_INCREMENT PRIMARY KEY, title TEXT NOT NULL,    *)
(* description TEXT, created BIGINT, updated BIGINT, completed TINYINT)    *)
(* and the statements of the todos router.  A row also records, as         *)
(* history, the identity of the request that inserted it (`by`).           *)
(***************************************************************************)
\* the value stored in a TINYINT column for a bound JSON value
TinyInt(json) ==
  CASE json \in {"1", "true"} -> "1"
    [] json \in {"0", "false"} -> "0"
    [] OTHER -> Null

\* COALESCE(?, column)
Coalesce(value, column) == IF value = Null THEN column ELSE value

\* a plausible slip: const { title, description, completed } = req.body, as
\* PATCH has it
DestructureNoDefaults(body) == body

\* const { title, description = "", completed = 0 } = req.body
Destructure(body) ==
  [title |-> body.title,
   description |-> IF body.description = Undefined THEN "" ELSE body.description,
   completed |-> IF body.completed = Undefined THEN "0" ELSE body.completed]

\* whether INSERT INTO todos fails: an undefined value is sent as NULL, and
\* title is NOT NULL
TitleMissing(body) == body.title \in {Undefined, Null}

\* INSERT INTO todos (title, description, created, updated, completed)
\* VALUES (?, ?, ?, ?, ?) with created = updated = timestamp
InsertTodo(table, r) ==
  LET b == Destructure(r.body)
  IN  [table EXCEPT
         !.todos = Append(@, [id |-> table.nextId, title |-> b.title,
                              description |-> b.description,
                              created |-> r.ts, updated |-> r.ts,
                              completed |-> TinyInt(b.completed),
                              by |-> [uid |-> r.userId, tok |-> r.guestId]]),
         !.nextId = @ + 1]

\* SELECT * FROM todos WHERE id = ?
SelectTodo(table, id) == SelectSeq(table.todos, LAMBDA row : row.id = id)

\* a plausible slip: updated = ? is pushed before the check of updates.length
NoUpdatesAfterStamp(body) == FALSE

\* PATCH builds no SET clause: none of title, description, completed is in
\* the body
NoUpdates(body) ==
  body.title = Undefined /\ body.description = Undefined /\ body.completed = Undefined

\* a plausible slip: SET title = ?, description = ?, completed = ?, updated = ?
\* whatever the body holds, an undefined value being sent as NULL
PatchedRowAllFields(row, body, timestamp) ==
  LET sent(v) == IF v = Undefined THEN Null ELSE v
  IN  [row EXCEPT !.title = sent(body.title),
                  !.description = sent(body.description),
                  !.completed = TinyInt(body.completed),
                  !.updated = timestamp]

\* a row after SET <col> = COALESCE(?, <col>) for every field of the body that
\* is not undefined, and updated = ?
PatchedRow(row, body, timestamp) ==
  [row EXCEPT
     !.title = IF body.title # Undefined THEN Coalesce(body.title, @) ELSE @,
     !.description = IF body.description # Undefined
                       THEN Coalesce(body.description, @) ELSE @,
     !.completed = IF body.completed # Undefined
                     THEN Coalesce(TinyInt(body.completed), @) ELSE @,
     !.updated = timestamp]

\* UPDATE todos SET ... WHERE id = ?
UpdateTodo(table, id, body, timestamp) ==
  [table EXCEPT !.todos =
     [i \in DOMAIN @ |-> IF @[i].id = id THEN PatchedRow(@[i], body, timestamp)
                                        ELSE @[i]]]

\* a plausible slip: DELETE FROM todos, without the WHERE clause
DeleteAllTodos(table, id) == [table EXCEPT !.todos = <<>>]

\* DELETE FROM todos WHERE id = ?
DeleteTodo(table, id) ==
  [table EXCEPT !.todos = SelectSeq(@, LAMBDA row : row.id # id)]

\* ORDER BY completed ASC, updated DESC: row a sorts before row b; NULL sorts
\* first in ascending order
CompletedRank(c) == CASE c = Null -> 0 [] c = "0" -> 1 [] OTHER -> 2
SortsBefore(a, b) ==
  \/ CompletedRank(a.completed) < CompletedRank(b.completed)
  \/ CompletedRank(a.completed) = CompletedRank(b.completed) /\ a.updated > b.updated

\* the rows in that order; rows that compare equal keep their table order
RECURSIVE OrderedInsert(_, _)
OrderedInsert(sorted, row) ==
  IF sorted = <<>> THEN <<row>>
  ELSE IF SortsBefore(row, Head(sorted)) THEN <<row>> \o sorted
  ELSE <<Head(sorted)>> \o OrderedInsert(Tail(sorted), row)

RECURSIVE OrderedFrom(_, _)
OrderedFrom(rows, sorted) ==
  IF rows = <<>> THEN sorted
  ELSE OrderedFrom(Tail(rows), OrderedInsert(sorted, Head(rows)))

\* SELECT * FROM todos ORDER BY completed ASC, updated DESC
SelectTodos(table) == OrderedFrom(table.todos, <<>>)

(***************************************************************************)
(* The pool-assignment pipeline of server.js: assignPoolMiddleware, then   *)
(* enhancedPoolMiddleware, then the todos router.                          *)
(***************************************************************************)
\* who a request is, by the credentials it carries
Identity(r) == [uid |-> r.userId, tok |-> r.guestId]

\* a todos handler is invoked: it runs up to its await of req.pool.query;
\* POST and PATCH read Date.now() on the way, PATCH answers 400 to a body
\* with none of the three fields; without req.pool the call of query throws
\* inside the handler's try (500)
TodoHandler(r) ==
  IF r.op = "patch" /\ NoUpdates(r.body)
    THEN [Respond(r, 400, "Keine Update-Daten") EXCEPT !.handler = TRUE]
    ELSE IF r.pool = NoPool
      THEN [Respond(r, 500, "err.message") EXCEPT !.handler = TRUE]
      ELSE [r EXCEPT !.handler = TRUE, !.pc = "handlerQuery",
                     !.ts = IF r.op \in {"create", "patch"} THEN now ELSE 0]

\* enhancedPoolMiddleware from "2) Gast-Session pruefen" to its next await
EnhancedGuest(r, gp, up) ==
  IF r.guestId # NoToken
    THEN IF gp[r.guestId] # NoPool
           THEN [r |-> TodoHandler([r EXCEPT !.pool = gp[r.guestId]]), gp |-> gp, up |-> up]
           ELSE [r |-> [r EXCEPT !.pc = "enhProbe"], gp |-> gp, up |-> up]
    ELSE [r |-> TodoHandler(r), gp |-> gp, up |-> up]

\* enhancedPoolMiddleware from its entry to its first await
EnhancedPool(r, gp, up) ==
  IF r.userId # NoUser
    THEN IF up[UserKey(r.userId)] # NoPool
           THEN [r |-> TodoHandler([r EXCEPT !.pool = up[UserKey(r.userId)]]),
                 gp |-> gp, up |-> up]
           ELSE [r |-> [r EXCEPT !.pc = "enhQuery"], gp |-> gp, up |-> up]
    ELSE EnhancedGuest(r, gp, up)

\* The branch assignPoolMiddleware takes for cookies (userId, guestId), called
\* at stack depth `depth`.  The conflict branch calls res.clearCookie, which
\* leaves req.cookies as it was, and calls assignPoolMiddleware(req, res, next)
\* again with the same request; the recursion has no await in it.
RECURSIVE AssignBranch(_, _, _)
AssignBranch(userId, guestId, depth) ==
  IF depth > MaxStack
    THEN [branch |-> "overflow", conflicts |-> 0]
    ELSE IF userId # NoUser /\ guestId = NoToken
      THEN [branch |-> "user", conflicts |-> 0]
      ELSE IF userId # NoUser /\ guestId # NoToken
        THEN LET inner == AssignBranch(userId, guestId, depth + 1)
             IN  [inner EXCEPT !.conflicts = @ + 1]
        ELSE IF guestId # NoToken
          THEN [branch |-> "guest", conflicts |-> 0]
          ELSE [branch |-> "none", conflicts |-> 0]

\* a plausible slip: the request goes on without a pool, as the last lines of
\* enhancedPoolMiddleware do
NoSessionGoesOn(r) == TodoHandler(r)

\* assignPoolMiddleware, "4. Keine Session": neither cookie
NoSession(r) == Respond(r, 401, "Keine Session initialisiert")

\* assignPoolMiddleware from the arrival of the request to its first await
\* or its response; `sent` tells whether the catch of a stack overflow still
\* had the stack to send its 500
AssignPool(r, sent) ==
  LET b  == AssignBranch(r.userId, r.guestId, 1)
      r1 == [r EXCEPT !.conflicts = b.conflicts, !.clearGuest = b.conflicts]
      same(x) == [r |-> x, gp |-> guestPools, up |-> userPools]
  IN  CASE b.branch = "user" -> same([r1 EXCEPT !.pc = "assignQuery"])
        [] b.branch = "overflow" ->
             same(IF sent THEN Respond(r1, 500, "Server-Fehler bei Session-Pruefung")
                          ELSE [r1 EXCEPT !.pc = "done"])
        [] b.branch = "guest" ->
             IF guestPools[r.guestId] # NoPool
               THEN EnhancedPool([r1 EXCEPT !.pool = guestPools[r.guestId]],
                                 guestPools, userPools)
               ELSE same(Respond([r1 EXCEPT !.clearGuest = @ + 1], 401,
                                 "Gast-Session ungueltig"))
        [] OTHER -> same(NoSession(r1))

\* assignPoolMiddleware after its registry query: rows is the query's result,
\* ok is FALSE when the query threw
AssignUserRows(r, rows, ok) ==
  LET same(x) == [r |-> x, gp |-> guestPools, up |-> userPools]
      key == UserKey(r.userId)
      gp1 == IF guestPools[key] = NoPool
               THEN [guestPools EXCEPT ![key] = NewPool(rows[1].db_name)]
               ELSE guestPools
  IN  IF ~ok THEN same(Respond(r, 500, "Server-Fehler bei Session-Pruefung"))
      ELSE IF rows # <<>>
        THEN EnhancedPool([r EXCEPT !.pool = gp1[key]], gp1, userPools)
        ELSE same(Respond([r EXCEPT !.clearUser = @ + 1], 401, "User-Session ungueltig"))

\* SHOW DATABASES LIKE '<dbName>'
ShowDatabasesLike(dbName) == stores[dbName].exists

\* enhancedPoolMiddleware after its registry query (pc enhQuery) or its
\* catalog probe (pc enhProbe); ok is FALSE when the query threw: the catch
\* calls next()
EnhancedResume(r, ok) ==
  LET same(x) == [r |-> x, gp |-> guestPools, up |-> userPools]
      rows == SelectById(r.userId)
      dbName == GuestDbName(r.guestId)
  IN  IF ~ok THEN same(TodoHandler(r))
      ELSE IF r.pc = "enhQuery"
        THEN IF rows # <<>>
               THEN [r  |-> TodoHandler([r EXCEPT !.pool = NewPool(rows[1].db_name)]),
                     gp |-> guestPools,
                     up |-> [userPools EXCEPT ![UserKey(r.userId)] = NewPool(rows[1].db_name)]]
               ELSE EnhancedGuest([r EXCEPT !.clearUser = @ + 1], guestPools, userPools)
        ELSE IF ShowDatabasesLike(dbName)
               THEN [r  |-> TodoHandler([r EXCEPT !.pool = NewPool(dbName)]),
                     gp |-> [guestPools EXCEPT ![r.guestId] = NewPool(dbName)],
                     up |-> userPools]
               ELSE same(TodoHandler([r EXCEPT !.clearGuest = @ + 1]))

\* The two pool middlewares run for GET /api/todos with cookies (userId,
\* guestId) from the state as it is, every query succeeding and no other
\* request in between: the request as it reaches a handler or is answered
Resolve(userId, guestId) ==
  LET arrived == AssignPool([Fresh EXCEPT !.kind = "todo", !.userId = userId,
                                          !.guestId = guestId, !.op = "list"], TRUE).r
      assigned == IF arrived.pc = "assignQuery"
                    THEN AssignUserRows(arrived, SelectById(userId), TRUE).r
                    ELSE arrived
  IN  IF assigned.pc \in {"enhQuery", "enhProbe"}
        THEN EnhancedResume(assigned, TRUE).r
        ELSE assigned

\* the history of handles given to todo handlers for user requests
Logged(r) ==
  IF clients.history /\ r.handler /\ r.userId # NoUser
    THEN attachLog \cup {[uid |-> r.userId, epoch |-> restarts, db |-> r.pool.db]}
    ELSE attachLog

\* the outcome of a pipeline segment becomes the state
Commit(s, out) ==
  /\ req' = [req EXCEPT ![s] = out.r]
  /\ guestPools' = out.gp
  /\ userPools' = out.up
  /\ attachLog' = Logged(out.r)

\* POST /guest/end has called guestPools[guestId].end() for guestId and awaits
\* it: the pool is closing and still in the map
Closing(guestId) ==
  \E e \in Slots : /\ req[e].kind = "end" /\ req[e].pc = "endPoolEnd"
                   /\ req[e].gid = guestId

\* a request for /api/todos arrives with cookies (userId, guestId)
TodoRequest(s) ==
  /\ Idle(s)
  /\ \E userId \in SendableUsers, guestId \in SendableTokens,
        op \in clients.ops, sent \in BOOLEAN :
        \E id \in (IF op \in {"get", "patch", "delete"} THEN clients.ids ELSE {0}),
           body \in (IF op \in {"create", "patch"} THEN clients.bodies ELSE {NoBody}) :
          Commit(s, AssignPool([Fresh EXCEPT !.kind = "todo", !.userId = userId,
                                             !.guestId = guestId, !.op = op,
                                             !.id = id, !.body = body,
                                             !.afterEnd = guestId \in ended,
                                             !.closing = Closing(guestId)], sent))
  /\ UNCHANGED <<registry, stores, minted, restarts, clients, now, jar, cookies, ended, core>>

\* assignPoolMiddleware's registry query returns
AssignQueryDone(s) ==
  /\ Awaits(s, "assignQuery")
  /\ \E ok \in Outcomes : Commit(s, AssignUserRows(req[s], SelectById(req[s].userId), ok))
  /\ UNCHANGED <<registry, stores, minted, restarts, clients, now, jar, cookies, ended, core>>

\* enhancedPoolMiddleware's query returns
EnhancedQueryDone(s) ==
  /\ Quiet
  /\ req[s].pc \in {"enhQuery", "enhProbe"}
  /\ \E ok \in Outcomes : Commit(s, EnhancedResume(req[s], ok))
  /\ UNCHANGED <<registry, stores, minted, restarts, clients, now, jar, cookies, ended, core>>

\* the response of a todos handler to the result of its statement on
\* `table`, and the table after the statement
TodoResult(r, table) ==
  LET found == SelectTodo(table, r.id) # <<>>
      same(x) == [r |-> x, table |-> table]
  IN  CASE r.op = "list" ->
             same([Respond(r, 200, "") EXCEPT !.rows = SelectTodos(table)])
        [] r.op = "get" ->
             same(IF found
                    THEN [Respond(r, 200, "") EXCEPT !.rows = SelectTodo(table, r.id)]
                    ELSE Respond(r, 404, "Todo nicht gefunden"))
        [] r.op = "create" ->
             IF TitleMissing(r.body)
               THEN same(Respond(r, 500, "err.message"))
               ELSE [r |-> Respond(r, 201, "Todo erfolgreich erstellt"),
                     table |-> InsertTodo(table, r)]
        [] r.op = "patch" ->
             IF found
               THEN [r |-> Respond(r, 200, "Todo aktualisiert"),
                     table |-> UpdateTodo(table, r.id, r.body, r.ts)]
               ELSE same(Respond(r, 404, "Todo nicht gefunden"))
        [] OTHER ->
             IF found
               THEN [r |-> Respond(r, 200, "Todo erfolgreich geloescht"),
                     table |-> DeleteTodo(table, r.id)]
               ELSE same(Respond(r, 404, "Todo nicht gefunden"))

\* the handler's statement runs on the store its pool is bound to, and the
\* handler answers
TodoQueryDone(s) ==
  LET r == req[s]
      dbName == r.pool.db
  IN  /\ Awaits(s, "handlerQuery")
      /\ \E ok \in Outcomes :
           IF ~ok \/ ~TableReady(dbName)
             THEN /\ req' = [req EXCEPT ![s] = Respond(r, 500, "err.message")]
                  /\ stores' = stores
             ELSE LET out == TodoResult(r, stores[dbName])
                  IN  /\ r.op = "create" => stores[dbName].nextId <= MaxTodos
                      /\ stores' = [stores EXCEPT ![dbName] = out.table]
                      /\ req' = [req EXCEPT ![s] = out.r]
      /\ UNCHANGED <<registry, guestPools, userPools, minted, restarts, attachLog, clients, now, jar, cookies, ended, core>>

(***************************************************************************)
(* The auth router.                                                        *)
(***************************************************************************)
\* POST /api/register arrives; the INSERT into the registry runs
Register(s) ==
  /\ Idle(s)
  /\ \E email \in clients.emails, password \in clients.passwords, ok \in Outcomes :
       LET r == [Fresh EXCEPT !.kind = "register", !.email = email, !.password = password]
       IN  IF ~ok
             THEN /\ req' = [req EXCEPT ![s] = Respond(r, 500, "err.message")]
                  /\ registry' = registry
             ELSE IF DupEntry(email)
               THEN /\ req' = [req EXCEPT ![s] = Respond(r, 409, "Email bereits registriert")]
                    /\ registry' = registry
               ELSE /\ registry' = InsertUser(email, Hash(password), UserDbName(email))
                    /\ req' = [req EXCEPT ![s] =
                                 [r EXCEPT !.uid = Len(registry) + 1, !.pc = "regCreateDb"]]
  /\ UNCHANGED <<stores, guestPools, userPools, minted, restarts, attachLog, clients, now, jar, cookies, ended, core>>

\* register: CREATE DATABASE IF NOT EXISTS returns; the pool is created
RegisterCreateDb(s) ==
  LET r == req[s]
      dbName == UserDbName(r.email)
  IN  /\ Awaits(s, "regCreateDb")
      /\ \E ok \in Outcomes :
           IF ~ok
             THEN /\ req' = [req EXCEPT ![s] = Respond(r, 500, "err.message")]
                  /\ stores' = stores
             ELSE /\ stores' = CreateDatabase(stores, dbName)
                  /\ req' = [req EXCEPT ![s] =
                               [r EXCEPT !.pool = NewPool(dbName), !.pc = "regCreateTable"]]
      /\ UNCHANGED <<registry, guestPools, userPools, minted, restarts, attachLog, clients, now, jar, cookies, ended, core>>

\* register: CREATE TABLE IF NOT EXISTS todos returns; the pool is stored
RegisterCreateTable(s) ==
  LET r == req[s]
      dbName == r.pool.db
  IN  /\ Awaits(s, "regCreateTable")
      /\ \E ok \in Outcomes :
           IF ~ok \/ ~stores[dbName].exists
             THEN /\ req' = [req EXCEPT ![s] = Respond(r, 500, "err.message")]
                  /\ UNCHANGED <<stores, userPools, core>>
             ELSE /\ stores' = CreateTable(stores, dbName)
                  /\ userPools' = [userPools EXCEPT ![UserKey(r.uid)] = r.pool]
                  /\ req' = [req EXCEPT ![s] = Respond(r, 201, "User registriert")]
      /\ UNCHANGED <<registry, guestPools, minted, restarts, attachLog, clients, now, jar, cookies, ended, core>>

\* a plausible slip: an unknown e-mail address is told apart
UnknownEmailTold(r) ==
  [Respond(r, 404, "Email nicht registriert") EXCEPT !.why = "no row"]

\* login: no row for the e-mail address
UnknownEmail(r) ==
  [Respond(r, 401, "Ungueltige Zugangsdaten") EXCEPT !.why = "no row"]

\* what POST /api/login answers to (email, password) sent with cookie guestId,
\* given the rows of its registry query; ok is FALSE when the query threw
LoginResponse(r, rows, ok) ==
  IF ~ok THEN Respond(r, 500, "err.message")
  ELSE IF rows = <<>>
    THEN UnknownEmail(r)
    ELSE IF ~Compare(r.password, rows[1].password_hash)
      THEN [Respond(r, 401, "Ungueltige Zugangsdaten") EXCEPT !.why = "bad password"]
      ELSE [Respond(r, 200, "Login erfolgreich") EXCEPT
              !.clearGuest = IF r.guestId # NoToken THEN 1 ELSE 0,
              !.setUser = rows[1].id]

\* POST /api/login
Login(s) ==
  /\ Idle(s)
  /\ \E email \in clients.emails, password \in Passwords,
        guestId \in SendableTokens, ok \in Outcomes :
       req' = [req EXCEPT ![s] =
                 LoginResponse([Fresh EXCEPT !.kind = "login", !.email = email,
                                             !.password = password, !.guestId = guestId],
                               SelectByEmail(email), ok)]
  /\ UNCHANGED <<registry, stores, guestPools, userPools, minted, restarts, attachLog, clients, now, jar, cookies, ended, core>>

(***************************************************************************)
(* The session router.                                                     *)
(***************************************************************************)
\* POST /api/session/guest arrives: the guestId is the cookie's or a new
\* uuidv4(); CREATE DATABASE is sent
GuestStart(s) ==
  /\ Idle(s)
  /\ \E userId \in SendableUsers, guestId \in SendableTokens :
     \E uuid \in IF guestId = NoToken THEN clients.uuids \ minted ELSE {NoToken} :
       LET r   == [Fresh EXCEPT !.kind = "guest", !.userId = userId, !.guestId = guestId]
           new == guestId = NoToken
       IN  /\ minted' = IF new THEN minted \cup {uuid} ELSE minted
           /\ req' = [req EXCEPT ![s] =
                        [r EXCEPT !.gid = IF new THEN uuid ELSE guestId,
                                  !.setGuest = IF new THEN uuid ELSE NoToken,
                                  !.clearUser = IF userId # NoUser THEN 1 ELSE 0,
                                  !.pc = "guestCreateDb"]]
  /\ UNCHANGED <<registry, stores, guestPools, userPools, restarts, attachLog, clients, now, jar, cookies, ended, core>>

\* guest start: CREATE DATABASE IF NOT EXISTS returns; without a cached pool
\* a pool is created and CREATE TABLE is sent
GuestCreateDb(s) ==
  LET r == req[s]
      dbName == GuestDbName(r.gid)
  IN  /\ Awaits(s, "guestCreateDb")
      /\ \E ok \in Outcomes :
           IF ~ok
             THEN /\ req' = [req EXCEPT ![s] = Respond(r, 500, "next(err)")]
                  /\ stores' = stores
             ELSE /\ stores' = CreateDatabase(stores, dbName)
                  /\ req' = [req EXCEPT ![s] =
                               IF guestPools[r.gid] = NoPool
                                 THEN [r EXCEPT !.pool = NewPool(dbName),
                                                !.pc = "guestCreateTable"]
                                 ELSE Respond([r EXCEPT !.pool = guestPools[r.gid]],
                                              200, "Gast-Session aktiv")]
      /\ UNCHANGED <<registry, guestPools, userPools, minted, restarts, attachLog, clients, now, jar, cookies, ended, core>>

\* guest start: CREATE TABLE IF NOT EXISTS todos returns; the pool is cached
GuestCreateTable(s) ==
  LET r == req[s]
      dbName == r.pool.db
  IN  /\ Awaits(s, "guestCreateTable")
      /\ \E ok \in Outcomes :
           IF ~ok \/ ~stores[dbName].exists
             THEN /\ req' = [req EXCEPT ![s] = Respond(r, 500, "next(err)")]
                  /\ UNCHANGED <<stores, guestPools, core>>
             ELSE /\ stores' = CreateTable(stores, dbName)
                  /\ guestPools' = [guestPools EXCEPT ![r.gid] = r.pool]
                  /\ req' = [req EXCEPT ![s] = Respond(r, 200, "Gast-Session aktiv")]
      /\ UNCHANGED <<registry, userPools, minted, restarts, attachLog, clients, now, jar, cookies, ended, core>>

\* a plausible slip: a guestId without a cached pool is taken for no session
EndWithoutPoolNotActive(r) == Respond(r, 400, "Keine Gast-Session aktiv")

\* guest end with a guestId that has no entry in guestPools: nothing to
\* close, DROP DATABASE is sent
EndWithoutPool(r) == [r EXCEPT !.pc = "endDrop"]

\* POST /api/session/guest/end arrives; with a cached pool, pool.end() is
\* called on it
GuestEnd(s) ==
  /\ Idle(s)
  /\ \E guestId \in SendableTokens :
       LET r == [Fresh EXCEPT !.kind = "end", !.guestId = guestId, !.gid = guestId]
       IN  req' = [req EXCEPT ![s] =
                     IF guestId = NoToken THEN Respond(r, 400, "Keine Gast-Session aktiv")
                     ELSE IF guestPools[guestId] # NoPool
                       THEN [r EXCEPT !.pc = "endPoolEnd", !.pool = guestPools[guestId]]
                       ELSE EndWithoutPool(r)]
  /\ UNCHANGED <<registry, stores, guestPools, userPools, minted, restarts, attachLog, clients, now, jar, cookies, ended, core>>

\* a plausible slip: the pool is closed and its map entry is left in place
GuestEndPoolKept(s) ==
  LET r == req[s]
  IN  /\ Awaits(s, "endPoolEnd")
      /\ \E ok \in Outcomes :
           req' = [req EXCEPT ![s] =
                     IF ok THEN [r EXCEPT !.pc = "endDrop"]
                     ELSE Respond(r, 500, "Fehler beim Beenden der Gast-Session")]
      /\ UNCHANGED <<registry, stores, guestPools, userPools, minted, restarts, attachLog,
                     clients, now, jar, cookies, ended, core>>

\* guest end: pool.end() returns; the map entry is deleted, DROP DATABASE sent
GuestEndPoolClosed(s) ==
  LET r == req[s]
  IN  /\ Awaits(s, "endPoolEnd")
      /\ \E ok \in Outcomes :
           IF ~ok
             THEN /\ req' = [req EXCEPT ![s] =
                               Respond(r, 500, "Fehler beim Beenden der Gast-Session")]
                  /\ guestPools' = guestPools
             ELSE /\ guestPools' = [guestPools EXCEPT ![r.gid] = NoPool]
                  /\ req' = [req EXCEPT ![s] = [r EXCEPT !.pc = "endDrop"]]
      /\ UNCHANGED <<registry, stores, userPools, minted, restarts, attachLog, clients, now, jar, cookies, ended, core>>

\* guest end: DROP DATABASE IF EXISTS returns; the cookie is cleared
GuestEndDropped(s) ==
  LET r == req[s]
  IN  /\ Awaits(s, "endDrop")
      /\ \E ok \in Outcomes :
           IF ~ok
             THEN /\ req' = [req EXCEPT ![s] =
                               Respond(r, 500, "Fehler beim Beenden der Gast-Session")]
                  /\ stores' = stores
                  /\ ended' = ended
             ELSE /\ stores' = DropDatabase(stores, GuestDbName(r.gid))
                  /\ req' = [req EXCEPT ![s] =
                               Respond([r EXCEPT !.clearGuest = 1], 200,
                                       "Gast-Session beendet und Daten geloescht")]
                  /\ ended' = IF clients.history THEN ended \cup {r.gid} ELSE ended
      /\ UNCHANGED <<registry, guestPools, userPools, minted, restarts, clients, now, jar, cookies, attachLog, core>>

\* a plausible slip: logout clears the guestId cookie as well
LogoutBothCookies(s) ==
  /\ Idle(s)
  /\ \E userId \in SendableUsers, guestId \in SendableTokens :
       req' = [req EXCEPT ![s] =
                 Respond([Fresh EXCEPT !.kind = "logout", !.userId = userId,
                                       !.guestId = guestId, !.clearUser = 1,
                                       !.clearGuest = 1],
                         200, "Logout erfolgreich")]
  /\ UNCHANGED <<registry, stores, guestPools, userPools, minted, restarts, attachLog,
                 clients, now, jar, cookies, ended, core>>

\* POST /api/logout: the userId cookie is cleared, whatever the request holds
Logout(s) ==
  /\ Idle(s)
  /\ \E userId \in SendableUsers, guestId \in SendableTokens :
       req' = [req EXCEPT ![s] =
                 Respond([Fresh EXCEPT !.kind = "logout", !.userId = userId,
                                       !.guestId = guestId, !.clearUser = 1],
                         200, "Logout erfolgreich")]
  /\ UNCHANGED <<registry, stores, guestPools, userPools, minted, restarts, attachLog, clients, now, jar, cookies, ended, core>>

\* GET /api/session/validate arrives: with a userId cookie the registry is
\* queried, else with a guestId cookie the catalog, else the answer is
\* { valid: false }
Validate(s) ==
  /\ Idle(s)
  /\ \E userId \in SendableUsers, guestId \in SendableTokens :
       LET r == [Fresh EXCEPT !.kind = "validate", !.userId = userId, !.guestId = guestId]
       IN  req' = [req EXCEPT ![s] =
                     IF userId # NoUser \/ guestId # NoToken
                       THEN [r EXCEPT !.pc = "validateQuery"]
                       ELSE [Respond(r, 200, "Keine aktive Session") EXCEPT !.why = "none"]]
  /\ UNCHANGED <<registry, stores, guestPools, userPools, minted, restarts, attachLog, clients, now, jar, cookies, ended, core>>

\* a plausible slip: the guestId cookie is looked at before the userId cookie
ValidateGuestFirst(r, ok) ==
  IF ~ok THEN Respond(r, 500, "Fehler bei Session-Validierung")
  ELSE IF r.guestId # NoToken
    THEN IF ShowDatabasesLike(GuestDbName(r.guestId))
           THEN [Respond(r, 200, "") EXCEPT !.why = "guest", !.gid = r.guestId]
           ELSE Respond([r EXCEPT !.clearGuest = 1], 401, "Gast-Session ungueltig")
    ELSE IF SelectById(r.userId) # <<>>
           THEN [Respond(r, 200, "") EXCEPT !.why = "user", !.uid = r.userId]
           ELSE Respond([r EXCEPT !.clearUser = 1], 401, "User-Session ungueltig")

\* what validate answers when its query returns; ok is FALSE when it threw
ValidateResponse(r, ok) ==
  IF ~ok THEN Respond(r, 500, "Fehler bei Session-Validierung")
  ELSE IF r.userId # NoUser
    THEN IF SelectById(r.userId) # <<>>
           THEN [Respond(r, 200, "") EXCEPT !.why = "user", !.uid = r.userId]
           ELSE Respond([r EXCEPT !.clearUser = 1], 401, "User-Session ungueltig")
    ELSE IF ShowDatabasesLike(GuestDbName(r.guestId))
           THEN [Respond(r, 200, "") EXCEPT !.why = "guest", !.gid = r.guestId]
           ELSE Respond([r EXCEPT !.clearGuest = 1], 401, "Gast-Session ungueltig")

\* validate: the query returns
ValidateQueryDone(s) ==
  /\ Awaits(s, "validateQuery")
  /\ \E ok \in Outcomes : req' = [req EXCEPT ![s] = ValidateResponse(req[s], ok)]
  /\ UNCHANGED <<registry, stores, guestPools, userPools, minted, restarts, attachLog, clients, now, jar, cookies, ended, core>>

\* a plausible slip: the start of the process runs a setup that creates table
\* users anew
RestartWithSetup ==
  /\ restarts < MaxRestarts
  /\ restarts' = restarts + 1
  /\ guestPools' = [k \in PoolKeys |-> NoPool]
  /\ userPools' = [k \in PoolKeys |-> NoPool]
  /\ req' = [s \in Slots |-> Fresh]
  /\ registry' = <<>>
  /\ UNCHANGED <<stores, minted, attachLog, clients, now, jar, cookies, ended, core>>

\* the process exits and is started again: the pool maps of db.js are empty,
\* the requests in flight are lost, the MySQL server keeps its data
Restart ==
  /\ restarts < MaxRestarts
  /\ restarts' = restarts + 1
  /\ guestPools' = [k \in PoolKeys |-> NoPool]
  /\ userPools' = [k \in PoolKeys |-> NoPool]
  /\ req' = [s \in Slots |-> Fresh]
  /\ UNCHANGED <<registry, stores, minted, attachLog, clients, now, jar, cookies, ended, core>>

\* Date.now() advances
Tick ==
  /\ clients.clock
  /\ Quiet
  /\ now < MaxClock
  /\ now' = now + 1
  /\ UNCHANGED <<registry, stores, guestPools, userPools, req, minted, cookies,
                 restarts, clients, attachLog, ended, jar, core>>

\* the Domain attribute of the options res.clearCookie(name, options) is
\* called with: written out in the pool middlewares and in POST /guest for
\* userId, ENV.COOKIE_DOMAIN elsewhere
ClearCookieDomain(r, name) ==
  IF r.kind = "todo" \/ (r.kind = "guest" /\ name = "userId")
    THEN ParentDomain
    ELSE clients.cookieDomain

\* The cookies of a browser after the response r.  Every cookie is set with
\* Domain = ENV.COOKIE_DOMAIN; a Set-Cookie that expires a cookie removes it
\* when its Domain is that of the cookie.  A request that was never answered
\* changes nothing.
Received(held, r) ==
  IF r.status = 0 THEN held
  ELSE [userId |-> IF r.setUser # NoUser THEN r.setUser
                   ELSE IF r.clearUser > 0
                           /\ ClearCookieDomain(r, "userId") = clients.cookieDomain
                     THEN NoUser ELSE held.userId,
        guestId |-> IF r.setGuest # NoToken THEN r.setGuest
                    ELSE IF r.clearGuest > 0
                            /\ ClearCookieDomain(r, "guestId") = clients.cookieDomain
                      THEN NoToken ELSE held.guestId]

\* the complete response of slot s is delivered with its Set-Cookie headers;
\* the slot is free again
Deliver(s) ==
  /\ req[s].pc = "done"
  /\ req' = [req EXCEPT ![s] = Fresh]
  /\ cookies' = IF req[s].setGuest # NoToken THEN cookies \cup {req[s].setGuest}
                                              ELSE cookies
  /\ jar' = IF clients.browser THEN Received(jar, req[s]) ELSE jar
  /\ core' = IF core.check = "pending" THEN [core EXCEPT !.early = TRUE] ELSE core
  /\ UNCHANGED <<registry, stores, guestPools, userPools, minted, restarts, clients, now,
                 attachLog, ended>>

PipelineStep(s) ==
  TodoRequest(s) \/ AssignQueryDone(s) \/ EnhancedQueryDone(s) \/ TodoQueryDone(s)

RegisterStep(s) == Register(s) \/ RegisterCreateDb(s) \/ RegisterCreateTable(s)

GuestStartStep(s) == GuestStart(s) \/ GuestCreateDb(s) \/ GuestCreateTable(s)

GuestEndStep(s) == GuestEnd(s) \/ GuestEndPoolClosed(s) \/ GuestEndDropped(s)

ValidateStep(s) == Validate(s) \/ ValidateQueryDone(s)

(***************************************************************************)
(* Spec: one request at a time, every route; one user, one guest, and a    *)
(* client that makes up cookies.                                           *)
(***************************************************************************)
Everyone ==
  [emails |-> {EmailA}, passwords |-> {"pw1"}, userIds |-> {1},
   uuids |-> {<<"a","-","b">>}, forged |-> ForgedTokens,
   faults |-> TRUE, history |-> FALSE,
   ops |-> {"create", "list"}, bodies |-> {TitleOnly}, ids |-> {}, clock |-> FALSE,
   browser |-> FALSE, cookieDomain |-> ParentDomain]

Init == Start(Everyone)

Next ==
  \/ \E s \in FirstSlot :
       \/ PipelineStep(s)
       \/ RegisterStep(s)
       \/ Login(s)
       \/ Logout(s)
       \/ GuestStartStep(s)
       \/ GuestEndStep(s)
       \/ ValidateStep(s)
       \/ Deliver(s)
  \/ Restart

Spec == Init /\ [][Next]_vars

(***************************************************************************)
(* SpecTenants: registered users only, one request at a time; three        *)
(* e-mail addresses, two of which start with the same twelve characters.   *)
(***************************************************************************)
Tenants ==
  [emails |-> Emails, passwords |-> {"pw1"}, userIds |-> UserIds,
   uuids |-> {}, forged |-> {}, faults |-> TRUE, history |-> FALSE,
   ops |-> {"create", "list"}, bodies |-> {TitleOnly}, ids |-> {}, clock |-> FALSE,
   browser |-> FALSE, cookieDomain |-> ParentDomain]

InitTenants == Start(Tenants)

NextTenants ==
  \E s \in FirstSlot : PipelineStep(s) \/ RegisterStep(s) \/ Login(s) \/ Deliver(s)

SpecTenants == InitTenants /\ [][NextTenants]_vars

(***************************************************************************)
(* SpecAccounts: the auth router alone, two requests at a time.            *)
(***************************************************************************)
Accounts ==
  [emails |-> Emails, passwords |-> {"pw1"}, userIds |-> {},
   uuids |-> {<<"a","-","b">>}, forged |-> {}, faults |-> TRUE, history |-> FALSE,
   ops |-> {"create", "list"}, bodies |-> {TitleOnly}, ids |-> {}, clock |-> FALSE,
   browser |-> FALSE, cookieDomain |-> ParentDomain]

InitAccounts == Start(Accounts)

NextAccounts ==
  \E s \in Slots : RegisterStep(s) \/ Login(s) \/ Deliver(s)

SpecAccounts == InitAccounts /\ [][NextAccounts]_vars

(***************************************************************************)
(* SpecRestart: one user, one client that makes up its guestId cookie, a   *)
(* restart of the process; the handles given to the handlers are logged.   *)
(***************************************************************************)
Restarted ==
  [emails |-> {EmailA}, passwords |-> {"pw1"}, userIds |-> {1},
   uuids |-> {}, forged |-> ForgedTokens, faults |-> TRUE, history |-> TRUE,
   ops |-> {"create", "list"}, bodies |-> {TitleOnly}, ids |-> {}, clock |-> FALSE,
   browser |-> FALSE, cookieDomain |-> ParentDomain]

InitRestart == Start(Restarted)

NextRestart ==
  \/ \E s \in FirstSlot :
       PipelineStep(s) \/ RegisterStep(s) \/ GuestStartStep(s) \/ Deliver(s)
  \/ Restart

SpecRestart == InitRestart /\ [][NextRestart]_vars

(***************************************************************************)
(* SpecGuests: guests only, with the cookies the server gave them, two     *)
(* requests at a time; the ended sessions are remembered.                  *)
(***************************************************************************)
Guests ==
  [emails |-> {}, passwords |-> {}, userIds |-> {},
   uuids |-> {<<"a","-","b">>}, forged |-> {}, faults |-> FALSE, history |-> TRUE,
   ops |-> {"create", "list"}, bodies |-> {TitleOnly}, ids |-> {}, clock |-> FALSE,
   browser |-> FALSE, cookieDomain |-> ParentDomain]

InitGuests == Start(Guests)

NextGuests ==
  \E s \in Slots :
    \/ TodoRequest(s)
    \/ TodoQueryDone(s)
    \/ GuestStartStep(s)
    \/ GuestEndStep(s)
    \/ Deliver(s)

SpecGuests == InitGuests /\ [][NextGuests]_vars

(***************************************************************************)
(* SpecProvision: guests that start their session again and again, two     *)
(* requests at a time, no session is ended and no database call fails.     *)
(***************************************************************************)
Provisioning ==
  [emails |-> {}, passwords |-> {}, userIds |-> {},
   uuids |-> Uuids, forged |-> {}, faults |-> FALSE, history |-> FALSE,
   ops |-> {"create", "list"}, bodies |-> {TitleOnly}, ids |-> {}, clock |-> FALSE,
   browser |-> FALSE, cookieDomain |-> ParentDomain]

InitProvision == Start(Provisioning)

NextProvision ==
  \E s \in Slots :
    \/ TodoRequest(s)
    \/ TodoQueryDone(s)
    \/ GuestStartStep(s)
    \/ Deliver(s)

SpecProvision == InitProvision /\ [][NextProvision]_vars

(***************************************************************************)
(* SpecTodos: one guest and every route of the todos router, one request   *)
(* at a time; the clock advances and database calls may fail.              *)
(***************************************************************************)
\* request bodies: a title alone, all three fields, and partial updates
TodoBodies ==
  {TitleOnly,
   [title |-> "t2", description |-> "d1", completed |-> "true"],
   [title |-> Undefined, description |-> Undefined, completed |-> "true"],
   [title |-> "t2", description |-> Undefined, completed |-> Undefined],
   [title |-> Undefined, description |-> Null, completed |-> "0"],
   NoBody}

Crud ==
  [emails |-> {}, passwords |-> {}, userIds |-> {},
   uuids |-> {<<"a","-","b">>}, forged |-> {}, faults |-> TRUE, history |-> FALSE,
   ops |-> {"create", "list", "get", "patch", "delete"},
   bodies |-> TodoBodies, ids |-> {1, 2}, clock |-> TRUE,
   browser |-> FALSE, cookieDomain |-> ParentDomain]

InitTodos == Start(Crud)

NextTodos ==
  \/ \E s \in FirstSlot :
       TodoRequest(s) \/ TodoQueryDone(s) \/ GuestStartStep(s) \/ Deliver(s)
  \/ Tick

SpecTodos == InitTodos /\ [][NextTodos]_vars

(***************************************************************************)
(* SpecRoundTrip: two users whose e-mail addresses start with the same     *)
(* twelve characters register, log in, create todos and list them, one     *)
(* request at a time; the clock advances and no database call fails.       *)
(***************************************************************************)
RoundTrip ==
  [emails |-> {EmailA, EmailB}, passwords |-> {"pw1"}, userIds |-> {1, 2},
   uuids |-> {}, forged |-> {}, faults |-> FALSE, history |-> FALSE,
   ops |-> {"create", "list"}, bodies |-> {TitleOnly}, ids |-> {}, clock |-> TRUE,
   browser |-> FALSE, cookieDomain |-> ParentDomain]

InitRoundTrip == Start(RoundTrip)

NextRoundTrip ==
  \/ \E s \in FirstSlot :
       \/ TodoRequest(s) \/ AssignQueryDone(s) \/ TodoQueryDone(s)
       \/ RegisterStep(s)
       \/ Login(s)
       \/ Deliver(s)
  \/ Tick

SpecRoundTrip == InitRoundTrip /\ [][NextRoundTrip]_vars

(***************************************************************************)
(* SpecBrowser: one browser, which sends the cookies it holds and applies  *)
(* the Set-Cookie headers of every response, on every route, one request   *)
(* at a time; the server runs with or without ENV.COOKIE_DOMAIN and may be *)
(* restarted.                                                              *)
(***************************************************************************)
Browser ==
  [emails |-> {EmailA}, passwords |-> {"pw1"}, userIds |-> {},
   uuids |-> {<<"a","-","b">>}, forged |-> {}, faults |-> TRUE, history |-> FALSE,
   ops |-> {"create", "list", "get", "patch", "delete"}, bodies |-> {TitleOnly},
   ids |-> {1}, clock |-> FALSE, browser |-> TRUE, cookieDomain |-> ParentDomain]

InitBrowser == \E domain \in CookieDomains : Start([Browser EXCEPT !.cookieDomain = domain])

NextBrowser ==
  \/ \E s \in FirstSlot :
       \/ PipelineStep(s)
       \/ RegisterStep(s)
       \/ Login(s)
       \/ Logout(s)
       \/ GuestStartStep(s)
       \/ GuestEndStep(s)
       \/ ValidateStep(s)
       \/ Deliver(s)
  \/ Restart

SpecBrowser == InitBrowser /\ [][NextBrowser]_vars

(***************************************************************************)
(* SpecColdCache: one registered user, two requests at a time, and a       *)
(* restart that empties the pool maps; no database call fails.             *)
(***************************************************************************)
ColdCache ==
  [emails |-> {EmailC}, passwords |-> {"pw1"}, userIds |-> {1},
   uuids |-> {}, forged |-> {}, faults |-> FALSE, history |-> FALSE,
   ops |-> {"list"}, bodies |-> {TitleOnly}, ids |-> {}, clock |-> FALSE,
   browser |-> FALSE, cookieDomain |-> ParentDomain]

InitColdCache == Start(ColdCache)

NextColdCache ==
  \/ \E s \in Slots : PipelineStep(s) \/ RegisterStep(s) \/ Deliver(s)
  \/ Restart

SpecColdCache == InitColdCache /\ [][NextColdCache]_vars

(***************************************************************************)
(* SpecStartup: the start of the process.  db.js starts the core           *)
(* connection check without awaiting it and server.js calls app.listen in  *)
(* the same turn, so the process accepts requests while the check is       *)
(* pending; the check then passes, or fails and the process exits.  One    *)
(* guest, one request at a time; database calls may fail.                  *)
(***************************************************************************)
Startup ==
  [emails |-> {}, passwords |-> {}, userIds |-> {},
   uuids |-> {<<"a","-","b">>}, forged |-> {}, faults |-> TRUE, history |-> FALSE,
   ops |-> {"create", "list"}, bodies |-> {TitleOnly}, ids |-> {}, clock |-> FALSE,
   browser |-> FALSE, cookieDomain |-> ParentDomain]

\* corePool.getConnection() resolves: the connection is released, the
\* process goes on
CoreConnected ==
  /\ core.check = "pending"
  /\ Quiet
  /\ core' = [core EXCEPT !.check = "connected"]
  /\ UNCHANGED <<registry, stores, guestPools, userPools, req, minted, cookies,
                 restarts, now, clients, attachLog, ended, jar>>

\* corePool.getConnection() rejects: process.exit(1); the pool maps and the
\* requests in flight are gone with the process
CoreCheckFailed ==
  /\ core.check = "pending"
  /\ Quiet
  /\ core' = [core EXCEPT !.check = "exited"]
  /\ guestPools' = [k \in PoolKeys |-> NoPool]
  /\ userPools' = [k \in PoolKeys |-> NoPool]
  /\ req' = [s \in Slots |-> Fresh]
  /\ UNCHANGED <<registry, stores, minted, cookies, restarts, now, clients,
                 attachLog, ended, jar>>

InitStartup == Boot(Startup, CheckPending)

NextStartup ==
  \/ \E s \in FirstSlot :
       \/ TodoRequest(s)
       \/ TodoQueryDone(s)
       \/ GuestStartStep(s)
       \/ ValidateStep(s)
       \/ Deliver(s)
  \/ CoreConnected
  \/ CoreCheckFailed

SpecStartup == InitStartup /\ [][NextStartup]_vars

(***************************************************************************)
(* Properties.                                                             *)
(***************************************************************************)

\* C1: every request that has reached a todo handler holds a pool bound to
\* the store of its identity: with a userId cookie i, the store named by the
\* registry row with id i; with only a guestId cookie t, the store derived
\* from t -- also when t has the form user_<id>.
HandleOfResolvedIdentity ==
  \A s \in Slots :
    LET r == req[s]
        rows == SelectById(r.userId)
    IN  (r.kind = "todo" /\ r.handler) =>
          IF r.userId # NoUser
            THEN rows # <<>> /\ r.pool.db = rows[1].db_name
            ELSE r.guestId # NoToken /\ r.pool.db = GuestDbName(r.guestId)

\* C2: the todos a list request returns were all created by requests of the
\* same identity as the list request.
ListReturnsOwnTodos ==
  \A s \in Slots :
    LET r == req[s]
    IN  (r.kind = "todo" /\ r.op = "list" /\ r.pc = "done" /\ r.status = 200) =>
          \A i \in 1 .. Len(r.rows) : r.rows[i].by = Identity(r)

\* C3: no two registry rows carry the same db_name.
StoreNameIdentifiesTenant ==
  \A i, j \in 1 .. Len(registry) :
    registry[i].db_name = registry[j].db_name => i = j

\* C4: a completed todo request that carried the userId of a registered user
\* and a guestId reached its handler with the user's pool, and the guestId
\* cookie was cleared exactly once.
BothCredentialsResolveAsUser ==
  \A s \in Slots :
    LET r == req[s]
        rows == SelectById(r.userId)
    IN  (/\ r.kind = "todo" /\ r.pc = "done"
         /\ r.userId # NoUser /\ r.guestId # NoToken /\ rows # <<>>) =>
          /\ r.handler
          /\ r.pool.db = rows[1].db_name
          /\ r.clearGuest = 1

\* C5: pool assignment enters its conflict branch at most once per request.
ConflictBranchAtMostOnce ==
  \A s \in Slots : req[s].kind = "todo" => req[s].conflicts <= 1

\* C6: a todo request with neither cookie is answered 401 at once: no handler
\* runs, no cookie is set or cleared, and the registry, the stores, the pool
\* maps and the minted guestIds stay as they were.  A guestId is minted, a
\* guest store starts to exist and a pool of a guest store enters guestPools
\* only in a step of a POST /api/session/guest request.
NoSessionIsRefused ==
  [][\A s \in Slots :
       LET r == req'[s]
           arrives == req[s].pc = "idle" /\ r.kind = "todo"
                      /\ r.userId = NoUser /\ r.guestId = NoToken
           guestMade ==
             \/ minted' # minted
             \/ \E t \in Tokens : /\ ~stores[GuestDbName(t)].exists
                                  /\ stores'[GuestDbName(t)].exists
             \/ \E k \in PoolKeys : /\ guestPools'[k] # guestPools[k]
                                    /\ guestPools'[k].db.prefix = "todos_guest_"
       IN  /\ arrives =>
                /\ r.pc = "done" /\ r.status = 401 /\ ~r.handler
                /\ r.setUser = NoUser /\ r.setGuest = NoToken
                /\ r.clearUser = 0 /\ r.clearGuest = 0
                /\ UNCHANGED <<registry, stores, guestPools, userPools, minted>>
           /\ guestMade => \E t \in Slots : req[t].kind = "guest" \/ req'[t].kind = "guest"
    ]_vars

\* C6 happens: a request with neither cookie has been answered 401 while a
\* guest session started by POST /api/session/guest is cached.
NoSessionRefusedSeen ==
  \E s \in Slots :
    /\ req[s].kind = "todo" /\ req[s].pc = "done" /\ req[s].status = 401
    /\ req[s].userId = NoUser /\ req[s].guestId = NoToken
    /\ \E t \in minted : guestPools[t] = NewPool(GuestDbName(t))

\* C7: a register request for an e-mail address that has a row leaves the
\* registry as it is and is answered 409 (500 when the INSERT call itself
\* failed), and the registry never holds two rows for one e-mail address,
\* whatever the interleaving of register requests.
DuplicateRegisterRefused ==
  [][/\ \A s \in Slots :
          LET r == req'[s]
          IN  (/\ req[s].pc = "idle" /\ r.kind = "register"
               /\ SelectByEmail(r.email) # <<>>) =>
                /\ r.pc = "done"
                /\ r.status = 409 \/ (clients.faults /\ r.status = 500)
                /\ registry' = registry
     /\ \A i, j \in 1 .. Len(registry') :
          registry'[i].email = registry'[j].email => i = j
    ]_vars

\* C7 happens: a register request was answered 409 while another register
\* request is in flight, and the address has its one row.
DuplicateRegisterSeen ==
  \E s, t \in Slots :
    /\ req[s].kind = "register" /\ req[s].pc = "done" /\ req[s].status = 409
    /\ Len(SelectByEmail(req[s].email)) = 1
    /\ req[t].kind = "register" /\ req[t].email = req[s].email
    /\ req[t].pc \in {"regCreateDb", "regCreateTable"}

\* C8: a login that fails for want of a row and a login that fails on the
\* password get the same response -- 401, the same error text, no cookie set
\* or cleared -- and change nothing.
LoginFailuresAlike ==
  [][\A s \in Slots :
       LET r == req'[s]
       IN  (req[s].pc = "idle" /\ r.kind = "login" /\ r.why \in {"no row", "bad password"}) =>
             /\ <<r.pc, r.status, r.error>> = <<"done", 401, "Ungueltige Zugangsdaten">>
             /\ <<r.setUser, r.setGuest, r.clearUser, r.clearGuest>> = <<NoUser, NoToken, 0, 0>>
             /\ UNCHANGED <<registry, stores, guestPools, userPools, minted>>
    ]_vars

\* C8 happens: a login for a registered address failed on its password.
LoginBadPasswordSeen ==
  \E s \in Slots :
    /\ req[s].kind = "login" /\ req[s].pc = "done" /\ req[s].why = "bad password"
    /\ SelectByEmail(req[s].email) # <<>>

\* C9: the handles given to the handlers for one userId before and after a
\* restart are bound to the same store.
SameStoreAfterRestart ==
  \A a, b \in attachLog :
    (a.uid = b.uid /\ a.epoch < b.epoch) => a.db = b.db

\* C10: a todo request that presents, as its only cookie, a guestId whose
\* guest/end has answered 200 never reaches a handler and is answered 401
\* with the guestId cookie cleared.
EndedTokenIsStale ==
  \A s \in Slots :
    LET r == req[s]
    IN  (r.kind = "todo" /\ r.afterEnd /\ r.userId = NoUser) =>
          /\ ~r.handler
          /\ r.pc = "done" => (r.status = 401 /\ r.clearGuest = 1)

\* C11: a guestId whose guest/end has answered 200 stays ended: it never
\* again has a database or an entry in guestPools.
EndedIsTerminal ==
  \A t \in ended :
    /\ ~stores[GuestDbName(t)].exists
    /\ guestPools[t] = NoPool

\* C12: a todo request that looked its guestId up in guestPools while
\* guest/end was awaiting pool.end() for that guestId was given no handle.
NoHandleToClosingPool ==
  \A s \in Slots :
    (req[s].kind = "todo" /\ req[s].closing) => req[s].pool = NoPool

OneLivePoolPerKey ==
  \A k \in PoolKeys : ~(guestPools[k] # NoPool /\ userPools[k] # NoPool)

\* C15: a todo request that arrives with only a guestId cookie, while
\* guestPools has no entry for the guestId and the guestId's database
\* exists, is not answered 401 and its guestId cookie is not cleared.
GuestReconciled ==
  [][\A s \in Slots :
       LET r == req'[s]
       IN  (/\ req[s].pc = "idle" /\ r.kind = "todo"
            /\ r.userId = NoUser /\ r.guestId # NoToken
            /\ guestPools[r.guestId] = NoPool
            /\ stores[GuestDbName(r.guestId)].exists) =>
             /\ r.status # 401
             /\ r.clearGuest = 0
    ]_vars

\* C16: the pool a todo handler holds is bound to a database that exists and
\* has the todos table, also while a register is in progress or after one
\* failed part-way.  (No database is dropped under SpecTenants.)
HandleHasSchema ==
  \A s \in Slots :
    (req[s].kind = "todo" /\ req[s].handler) => TableReady(req[s].pool.db)

\* C17: a completed todo request whose userId cookie has no registry row, or
\* that has no userId cookie and whose guestId cookie has neither an entry in
\* guestPools nor a database, was answered 401 with that cookie cleared once,
\* ran no handler and holds no pool.
StaleClaimRefused ==
  \A s \in Slots :
    LET r == req[s]
        staleUser == r.userId # NoUser /\ SelectById(r.userId) = <<>>
        staleGuest == /\ r.userId = NoUser /\ r.guestId # NoToken
                      /\ guestPools[r.guestId] = NoPool
                      /\ ~stores[GuestDbName(r.guestId)].exists
    IN  (r.kind = "todo" /\ r.pc = "done" /\ (staleUser \/ staleGuest)) =>
          /\ r.status = 401 /\ ~r.handler /\ r.pool = NoPool
          /\ staleUser => r.clearUser = 1
          /\ staleGuest => r.clearGuest = 1

\* C18: a todo request with only a userId cookie that the middleware
\* answered itself -- its registry lookup found no row or failed -- was
\* answered 401 with the userId cookie cleared, never with a server error.
RegistryFailureIsStale ==
  \A s \in Slots :
    LET r == req[s]
    IN  (/\ r.kind = "todo" /\ r.pc = "done" /\ ~r.handler
         /\ r.userId # NoUser /\ r.guestId = NoToken) =>
          r.status = 401 /\ r.clearUser = 1

\* C19: guest/end answers 400 exactly when the request has no guestId
\* cookie.  With a guestId cookie and no entry in guestPools it goes on to
\* DROP DATABASE, and when the DROP returns the guestId's database is gone
\* and the answer is 200.
EndNotActiveOnlyWithoutToken ==
  [][\A s \in Slots :
       LET r == req'[s]
       IN  /\ (req[s].pc = "idle" /\ r.kind = "end") =>
                /\ (r.status = 400) <=> (r.guestId = NoToken)
                /\ (r.guestId # NoToken /\ guestPools[r.guestId] = NoPool) =>
                     r.pc = "endDrop"
           /\ (req[s].kind = "end" /\ r.kind = "end" /\ req[s].pc # "idle") =>
                r.status # 400
           /\ (req[s].kind = "end" /\ req[s].pc = "endDrop" /\ r.pc = "done") =>
                /\ r.status = 200
                /\ ~stores'[GuestDbName(r.gid)].exists
    ]_vars

\* C19 happens: a guest/end that found no pool for its guestId has dropped
\* the database and answered 200; the database was there when it arrived,
\* for another guest/end that had closed the pool has not yet sent its DROP.
EndWithoutPoolSeen ==
  \E s, t \in Slots :
    /\ req[s].kind = "end" /\ req[s].pc = "done" /\ req[s].status = 200
    /\ req[s].guestId # NoToken /\ req[s].pool = NoPool
    /\ ~stores[GuestDbName(req[s].gid)].exists
    /\ req[t].kind = "end" /\ req[t].gid = req[s].gid
    /\ req[t].pc = "endDrop" /\ req[t].pool # NoPool

\* C20: a POST /guest that answered 200 set a guestId cookie exactly when
\* the request had none, and then a new one; with a guestId cookie it used
\* that guestId.  At that moment the guestId's database and todos table exist
\* and guestPools holds for the guestId a pool bound to that database.
GuestStartPostcondition ==
  \A s \in Slots :
    LET r == req[s]
    IN  (r.kind = "guest" /\ r.pc = "done" /\ r.status = 200) =>
          /\ (r.setGuest # NoToken) <=> (r.guestId = NoToken)
          /\ r.guestId # NoToken => r.gid = r.guestId
          /\ r.guestId = NoToken => (r.gid = r.setGuest /\ r.gid \notin cookies)
          /\ TableReady(GuestDbName(r.gid))
          /\ guestPools[r.gid] = NewPool(GuestDbName(r.gid))

\* C21: a todo request that has left the middlewares was either answered 401
\* or 500 by them without a handler being invoked, or its handler was
\* invoked with a pool, and that pool is bound to the store of the request's
\* identity.
ResolutionOutcomes ==
  \A s \in Slots :
    LET r == req[s]
        rows == SelectById(r.userId)
        right == IF r.userId # NoUser
                   THEN IF rows # <<>> THEN rows[1].db_name ELSE NoStore
                   ELSE GuestDbName(r.guestId)
    IN  (r.kind = "todo" /\ r.pc \in {"handlerQuery", "done"}) =>
          \/ ~r.handler /\ r.status \in {401, 500}
          \/ r.handler /\ r.pool # NoPool /\ r.pool.db = right

\* C22: the step in which a todos handler answers leaves the pool maps and the
\* registry as they were, and leaves unchanged the store of every tenant other
\* than the one the request identifies: every other registered user's store
\* and every other guestId's store.
CrudFrame ==
  [][\A s \in Slots :
       LET r == req[s]
       IN  (r.kind = "todo" /\ r.pc = "handlerQuery" /\ req'[s].pc = "done") =>
             /\ guestPools' = guestPools
             /\ userPools' = userPools
             /\ registry' = registry
             /\ \A u \in 1 .. Len(registry) :
                  u # r.userId => stores'[registry[u].db_name] = stores[registry[u].db_name]
             /\ \A t \in Tokens :
                  (r.userId = NoUser /\ t # r.guestId) =>
                    stores'[GuestDbName(t)] = stores[GuestDbName(t)]]_vars

\* C23 (as stated): when PATCH /:id answers 200, the row with that id has every
\* field of the body that is not undefined set to the body's value -- null
\* included --, every other field of title, description, completed and the row's
\* created as before, and updated set to the Date.now() the handler read.
PartialUpdateAsStated ==
  [][\A s \in Slots :
       LET r == req[s]
           old == SelectTodo(stores[r.pool.db], r.id)[1]
           new == SelectTodo(stores'[r.pool.db], r.id)[1]
       IN  (r.kind = "todo" /\ r.op = "patch" /\ r.pc = "handlerQuery"
              /\ req'[s].pc = "done" /\ req'[s].status = 200) =>
             /\ new.title = IF r.body.title # Undefined THEN r.body.title ELSE old.title
             /\ new.description = IF r.body.description # Undefined
                                    THEN r.body.description ELSE old.description
             /\ new.completed = IF r.body.completed # Undefined
                                  THEN TinyInt(r.body.completed) ELSE old.completed
             /\ new.created = old.created
             /\ new.updated = r.ts]_vars

\* C23: when PATCH /:id answers 200, the row with that id has every field of
\* the body that is neither undefined nor null set to the body's value, every
\* other field of title, description, completed and the row's id and created
\* as before, and updated set to the Date.now() the handler read; the other
\* rows of the table are as before.
PartialUpdate ==
  [][\A s \in Slots :
       LET r == req[s]
           supplied(v) == v \notin {Undefined, Null}
           before == stores[r.pool.db].todos
           after == stores'[r.pool.db].todos
           old == SelectTodo(stores[r.pool.db], r.id)[1]
           new == SelectTodo(stores'[r.pool.db], r.id)[1]
       IN  (r.kind = "todo" /\ r.op = "patch" /\ r.pc = "handlerQuery"
              /\ req'[s].pc = "done" /\ req'[s].status = 200) =>
             /\ new.title = IF supplied(r.body.title) THEN r.body.title ELSE old.title
             /\ new.description = IF supplied(r.body.description)
                                    THEN r.body.description ELSE old.description
             /\ new.completed = IF supplied(r.body.completed)
                                  THEN TinyInt(r.body.completed) ELSE old.completed
             /\ new.id = old.id
             /\ new.created = old.created
             /\ new.updated = r.ts
             /\ r.ts <= now
             /\ Len(after) = Len(before)
             /\ \A i \in 1 .. Len(before) :
                  before[i].id # r.id => after[i] = before[i]]_vars

\* a PATCH with only { completed: true } has answered 200 after the clock
\* moved: the row is completed, keeps its title and its created, and its
\* updated is later than its created
PartialUpdateSeen ==
  \E s \in Slots :
    LET r == req[s]
        rows == IF r.pool.db \in StoreNames
                  THEN SelectTodo(stores[r.pool.db], r.id) ELSE <<>>
    IN  /\ r.kind = "todo" /\ r.op = "patch" /\ r.pc = "done" /\ r.status = 200
        /\ r.body = [title |-> Undefined, description |-> Undefined, completed |-> "true"]
        /\ rows # <<>>
        /\ rows[1].completed = "1" /\ rows[1].title = "t1"
        /\ rows[1].updated = r.ts /\ rows[1].updated > rows[1].created

\* C24: for a user whose registration has succeeded (its registry row and its
\* store with table todos exist) and who sends the userId that login returned,
\* every todo request is given a handle and answered 200 or 201, login
\* returns the id of the registry row of the e-mail, and in the answer to
\* GET / every todo the user created with only a title is there exactly once,
\* with that title, completed 0 and created = updated.
RegistrationRoundTrip ==
  \A s \in Slots :
    LET r == req[s]
        mine == SelectSeq(stores[r.pool.db].todos, LAMBDA row : row.by = Identity(r))
    IN  /\ (r.kind = "login" /\ r.pc = "done" /\ r.status = 200) =>
             /\ r.setUser \in 1 .. Len(registry)
             /\ registry[r.setUser].email = r.email
        /\ (r.kind = "todo" /\ r.pc = "done" /\ r.guestId = NoToken
              /\ r.userId \in 1 .. Len(registry)) =>
             /\ r.handler
             /\ r.pool.db = registry[r.userId].db_name
             /\ r.status = IF r.op = "create" THEN 201 ELSE 200
             /\ r.op = "list" =>
                  \A i \in 1 .. Len(mine) :
                    /\ Cardinality({j \in 1 .. Len(r.rows) : r.rows[j].id = mine[i].id}) = 1
                    /\ \E j \in 1 .. Len(r.rows) :
                         /\ r.rows[j] = mine[i]
                         /\ r.rows[j].title = "t1"
                         /\ r.rows[j].completed = "0"
                         /\ r.rows[j].created = r.rows[j].updated

\* user 2 has registered and logged in, has created a todo after the clock
\* moved, and GET / has answered with it
RoundTripSeen ==
  \E s \in Slots :
    LET r == req[s]
    IN  /\ r.kind = "todo" /\ r.op = "list" /\ r.pc = "done" /\ r.status = 200
        /\ r.userId = 2 /\ r.guestId = NoToken
        /\ \E j \in 1 .. Len(r.rows) :
             /\ r.rows[j].by = Identity(r)
             /\ r.rows[j].title = "t1"
             /\ r.rows[j].created > 0

\* C30: a browser that starts without cookies and applies the Set-Cookie
\* headers of every response never holds a userId cookie and a guestId cookie
\* at once.
CredentialsExclusive == ~(jar.userId # NoUser /\ jar.guestId # NoToken)

\* C25: no step removes or changes a row of the registry: every row is in the
\* next state what it is now, so that a user id names the same db_name for
\* ever.
RegistryRowsImmutable ==
  [][/\ Len(registry') >= Len(registry)
     /\ \A i \in 1 .. Len(registry) : registry'[i] = registry[i]]_vars

\* a registered user has logged in, created a todo and deleted it, and the
\* server has been restarted since the registration
RegistrySurvivesSeen ==
  /\ registry # <<>>
  /\ restarts > 0
  /\ \E s \in Slots :
       /\ req[s].kind = "todo" /\ req[s].op = "delete" /\ req[s].status = 200
       /\ req[s].userId \in 1 .. Len(registry)

CacheConverged ==
  LET entries == {e \in {"guestPools", "userPools"} \X PoolKeys :
                    IF e[1] = "guestPools" THEN guestPools[e[2]] # NoPool
                                           ELSE userPools[e[2]] # NoPool}
      pool(e) == IF e[1] = "guestPools" THEN guestPools[e[2]] ELSE userPools[e[2]]
      store(k) == IF \E u \in 1 .. Len(registry) : k = UserKey(u)
                    THEN registry[CHOOSE u \in 1 .. Len(registry) : k = UserKey(u)].db_name
                    ELSE GuestDbName(k)
  IN  (\A s \in Slots : req[s].pc = "idle") =>
        /\ \A e \in entries : pool(e).db = store(e[2])
        /\ \A e, f \in entries : pool(e).db = pool(f).db => e = f

\* C28: for a guestId with no guest start and no guest end in flight, a pool
\* in guestPools under that guestId is bound to a database that exists.
CachedGuestPoolHasStore ==
  \A t \in Uuids :
    (/\ \A s \in Slots : ~(req[s].kind \in {"guest", "end"} /\ req[s].gid = t)
     /\ guestPools[t] # NoPool)
      => stores[guestPools[t].db].exists

\* C29: when POST /register has answered 500 after its INSERT into the
\* registry, the registry has no row for the e-mail; and when no register is
\* in flight, the database named by every registry row exists.
RegisterAllOrNothing ==
  /\ \A s \in Slots :
       LET r == req[s]
       IN  (r.kind = "register" /\ r.pc = "done" /\ r.status = 500 /\ r.uid # NoUser)
             => SelectByEmail(r.email) = <<>>
  /\ (\A s \in Slots : req[s].kind = "register" => req[s].pc = "done")
       => \A i \in 1 .. Len(registry) : stores[registry[i].db_name].exists

\* C31: in every state without a request in flight and for every single
\* credential a client can send, when GET /validate answers valid for it, the pool middlewares give a todo
\* request carrying it a handle, and when GET /validate answers 401 for it,
\* the pool middlewares answer 401 and no handler is invoked.
ValidateAgreesWithResolve ==
  LET single == {[userId |-> u, guestId |-> NoToken] : u \in SendableUsers \ {NoUser}}
                  \cup {[userId |-> NoUser, guestId |-> t] : t \in SendableTokens \ {NoToken}}
  IN  (\A s \in Slots : req[s].pc = "idle") => \A c \in single :
        LET validated == ValidateResponse([Fresh EXCEPT !.kind = "validate",
                                                        !.userId = c.userId,
                                                        !.guestId = c.guestId], TRUE)
            resolved == Resolve(c.userId, c.guestId)
        IN  /\ validated.status = 200 => (resolved.handler /\ resolved.pool # NoPool)
            /\ validated.status = 401 => (~resolved.handler /\ resolved.status = 401)

\* C32: every step of GET /validate leaves the pool maps, the registry and
\* the databases as they are and sets no cookie.  Its answer is
\* { valid: false } exactly when the request has neither cookie, and then it
\* clears no cookie; with a userId cookie the answer is about the user alone,
\* whatever the guestId cookie is: type user when the registry has the id, 401
\* with the userId cookie cleared otherwise; with a guestId cookie alone the
\* answer is type guest when the guest database exists, 401 with the guestId
\* cookie cleared otherwise.
ValidateReadOnly ==
  [][\A s \in Slots :
       LET after == req'[s]
           none == after.userId = NoUser /\ after.guestId = NoToken
       IN  (after.kind = "validate" /\ after # req[s]) =>
             /\ guestPools' = guestPools /\ userPools' = userPools
             /\ registry' = registry /\ stores' = stores
             /\ after.setUser = NoUser /\ after.setGuest = NoToken
             /\ (after.pc = "done" /\ after.status # 500) =>
                  /\ after.why = "none" <=> none
                  /\ none => (after.status = 200 /\ after.clearUser = 0
                                /\ after.clearGuest = 0)
                  /\ after.userId # NoUser =>
                       /\ after.clearGuest = 0
                       /\ IF SelectById(after.userId) # <<>>
                            THEN after.status = 200 /\ after.why = "user"
                                   /\ after.clearUser = 0
                            ELSE after.status = 401 /\ after.clearUser = 1
                  /\ (after.userId = NoUser /\ after.guestId # NoToken) =>
                       /\ after.clearUser = 0
                       /\ IF stores[GuestDbName(after.guestId)].exists
                            THEN after.status = 200 /\ after.why = "guest"
                                   /\ after.clearGuest = 0
                            ELSE after.status = 401 /\ after.clearGuest = 1]_vars

\* GET /validate, sent with a userId cookie and the guestId cookie of a guest
\* database that exists, has answered for the user
ValidateUserFirstSeen ==
  \E s \in Slots :
    /\ req[s].kind = "validate" /\ req[s].pc = "done" /\ req[s].status = 200
    /\ req[s].userId # NoUser /\ req[s].guestId # NoToken
    /\ stores[GuestDbName(req[s].guestId)].exists
    /\ req[s].why = "user"

\* C33: POST /logout clears the userId cookie and nothing else: it sets no
\* cookie, leaves the guestId cookie, the pool maps, the registry and the
\* databases as they are, so that what the pool middlewares give a request
\* of any registered user is the same after it as before; the browser that
\* receives the answer holds no userId cookie and the guestId cookie it held.
LogoutClearsUserOnly ==
  [][\A s \in Slots :
       LET r == req[s]
           after == req'[s]
       IN  /\ (after.kind = "logout" /\ after # r) =>
                /\ after.pc = "done" /\ after.status = 200
                /\ after.clearUser = 1 /\ after.clearGuest = 0
                /\ after.setUser = NoUser /\ after.setGuest = NoToken
                /\ guestPools' = guestPools /\ userPools' = userPools
                /\ registry' = registry /\ stores' = stores
                /\ \A u \in 1 .. Len(registry) :
                     Resolve(u, NoToken)' = Resolve(u, NoToken)
           /\ (r.kind = "logout" /\ r.pc = "done" /\ after.kind = "none"
                 /\ restarts' = restarts) =>
                /\ jar'.userId = NoUser
                /\ jar'.guestId = jar.guestId]_vars

\* a logged-in user with a todo in their store and a pool in userPools has
\* logged out: the answer is complete, the pool and the todo are still there
LogoutSeen ==
  \E s \in Slots :
    LET r == req[s]
    IN  /\ r.kind = "logout" /\ r.pc = "done"
        /\ r.userId \in 1 .. Len(registry)
        /\ userPools[UserKey(r.userId)] # NoPool
        /\ stores[registry[r.userId].db_name].todos # <<>>
        /\ Resolve(r.userId, NoToken).handler

\* C34: when POST /guest/end has answered 500, the session of its guestId is
\* as the request found it: the pool the request found is in guestPools under
\* the guestId, the guest database exists if it existed, and the guestId
\* cookie is not cleared.
GuestEndFailureKeepsSession ==
  [][\A s \in Slots :
       LET r == req[s]
           after == req'[s]
       IN  (r.kind = "end" /\ r.pc # "done" /\ after.kind = "end"
              /\ after.pc = "done" /\ after.status = 500) =>
             /\ after.clearGuest = 0
             /\ stores' = stores
             /\ guestPools'[r.gid] = r.pool]_vars

EmptyPatchRejected ==
  [][\A s \in Slots :
       LET after == req'[s]
       IN  (after.kind = "todo" /\ after.op = "patch"
              /\ after.body.title = Undefined
              /\ after.body.description = Undefined
              /\ after.body.completed = Undefined
              /\ after # req[s]) =>
             /\ stores' = stores
             /\ after.pc # "handlerQuery"
             /\ after.handler => (after.pc = "done" /\ after.status = 400)]_vars

\* a PATCH without any of the three fields, for the id of a row of the
\* handle's table, has been answered 400
EmptyPatchSeen ==
  \E s \in Slots :
    LET r == req[s]
    IN  /\ r.kind = "todo" /\ r.op = "patch" /\ r.body = NoBody
        /\ r.pc = "done" /\ r.status = 400 /\ r.handler
        /\ r.pool # NoPool
        /\ SelectTodo(stores[r.pool.db], r.id) # <<>>
        /\ now > SelectTodo(stores[r.pool.db], r.id)[1].updated

\* C37: a process whose core connection check has failed, and which has
\* exited, has sent no response: every response comes from a process whose
\* check has passed.
FailFastStartup == (core.check = "exited") => ~core.early
=============================================================================
